---- MODULE Spec2Model ----
(***************************************************************************)
(* A model of the vkguide renderer's frame orchestration and resource      *)
(* lifetime code: the render loop of Engine (src/src/engine.rs), the frame *)
(* ring (src/src/frames.rs), the swapchain (src/src/swapchain.rs), the     *)
(* growable descriptor allocator (src/src/descriptors.rs) and the          *)
(* immediate submission context (src/src/immediate.rs).                    *)
(*                                                                         *)
(* Several specifications share the module.  Spec runs the render loop     *)
(* against an asynchronous GPU queue and a window that sends events, up to *)
(* Engine::destroy; SpecAlloc runs the growable descriptor allocator       *)
(* against a driver whose results are inputs; SpecTeardown lets the        *)
(* application exit after any such allocator calls; SpecGrow follows the   *)
(* allocator's capacity counter alone; SpecImmediate runs the immediate    *)
(* submission contexts; SpecSetup starts inside Engine::new, with the mesh *)
(* uploads, and goes on into the render loop.  Engine::render never calls  *)
(* the per-frame allocators or the immediate contexts, so these do not     *)
(* interact with the render loop.                                          *)
(***************************************************************************)
EXTENDS Integers, Sequences, FiniteSets, TLC

VARIABLES
    pc,                  \* where the single CPU thread is (event loop / inside render)
    frame_index,         \* Frames::frame_index
    fence,               \* FrameData::render_fence, per slot: TRUE = signaled
    swapchain_semaphore, \* FrameData::swapchain_semaphore, per slot: TRUE = signal not yet consumed
    frames,              \* per slot: the slot's device objects, "live" or "destroyed"
    gpu,                 \* graphics queue: submissions not yet completed, oldest first
    resize_swapchain,    \* Engine::resize_swapchain
    render,              \* Engine::render (the occlusion flag)
    surface,             \* the surface capabilities the platform reports now
    swapchain,           \* Engine::swapchain
    render_semaphores,   \* Engine::render_semaphores (its length)
    image_index,         \* the index the last successful acquire returned
    iter,                \* what the current (or last) render call has done so far
    destroyed_in_use,    \* a swapchain was destroyed while submitted work was pending
    reset_while_pending, \* a command buffer was reset while its submission was pending
    ready_pool,          \* DescriptorAllocatorGrowable::ready_pool
    full_pool,           \* DescriptorAllocatorGrowable::full_pool
    pool_capacity,       \* DescriptorAllocatorGrowable::pool_capacity
    pools,               \* every descriptor pool the device created for the allocator
    last,                \* what the last allocator call did
    sets_out,            \* the descriptor sets handed out and not reset since
    max_sets,            \* the max_sets argument of DescriptorAllocatorGrowable::new
    pools_created,       \* how many pools get_pool has created since new
    created_capacity,    \* the set capacity of the pool created last
    imm_pc,              \* where the thread is inside ImmediateSubmit::submit
    imm_fence,           \* ImmediateSubmit::fence, per context: TRUE = signaled
    imm_pending,         \* per context: how many of its submissions have not completed
    imm_call,            \* what the current (or last) ImmediateSubmit::submit has done
    destroy_order,       \* the objects Engine::destroy has destroyed, in order
    frames_begun,        \* how many render calls have started since Engine::new
    frames_done,         \* how many of them presented and returned Ok
    slot_uses,           \* per slot: how many of those ran on the slot
    resize_events        \* a Resized event has arrived since Engine::new

engineVars == <<pc, frame_index, fence, swapchain_semaphore, frames, gpu,
                resize_swapchain, render, surface, swapchain, render_semaphores,
                image_index, iter, destroyed_in_use, reset_while_pending, destroy_order,
                frames_begun, frames_done, slot_uses, resize_events>>
countVars == <<frames_begun, frames_done, slot_uses, resize_events>>
allocVars == <<ready_pool, full_pool, pool_capacity, pools, last, sets_out>>
growVars == <<max_sets, pools_created, created_capacity>>
immVars == <<imm_pc, imm_fence, imm_pending, imm_call>>
\* What the render loop and the window events leave alone.
otherVars == <<destroy_order, countVars, allocVars, growVars, immVars>>
vars == <<engineVars, allocVars, growVars, immVars>>

\* u32::min.
Min(a, b) == IF a < b THEN a ELSE b

(***************************************************************************)
(* Bounds of the model.                                                    *)
(***************************************************************************)
\* Submissions the graphics queue may hold before the model stops submitting.
MaxQueue == 3
\* Descriptor pools the device can create before create_descriptor_pool fails.
MaxPools == 2
\* A clear_pools call fails only while the two lists together are no longer
\* than this (the lists of a failed clear_pools grow with every failure).
MaxListLen == 2
\* The max_sets values the allocator is constructed with.
InitMaxSets == {1, 2}
\* The max_sets values the capacity sequence is followed from, and how many
\* pools get_pool creates before the model stops following it.
GrowMaxSets == {1, 2, 3, 10, 1000, 4092, 5000}
MaxCreated == 17
\* A failing wait_for_fences leaves a submission behind only while the
\* context has fewer than this many on the queue.
MaxImmediatePending == 2
\* Render calls the window asks for before the model stops drawing.
MaxFrames == 5

(***************************************************************************)
(* Frame ring (src/src/frames.rs).                                         *)
(***************************************************************************)
FRAMES_IN_FLIGHT == 2

Slots == 0 .. (FRAMES_IN_FLIGHT - 1)

\* Frames::get_current_frame: the slot at frame_index % FRAMES_IN_FLIGHT.
get_current_frame == frame_index % FRAMES_IN_FLIGHT

\* Frames::advance.
advanceTwice == (frame_index + 2) % FRAMES_IN_FLIGHT

advance == (frame_index + 1) % FRAMES_IN_FLIGHT

\* Frames::new: every slot's fence is created SIGNALED, its semaphore unsignaled.
FramesNewFenceUnsignaled == [k \in Slots |-> FALSE]

FramesNewFence == [k \in Slots |-> TRUE]

(***************************************************************************)
(* Swapchain (src/src/swapchain.rs).                                       *)
(***************************************************************************)
\* pub const IMAGE_FORMAT, the format Engine asks Swapchain::new for.
IMAGE_FORMAT == "B8G8R8A8_UNORM"

\* surface_caps.current_extent with width u32::MAX (written -1 here): the
\* surface takes its size from the swapchain.
UndefinedExtent == [width |-> 0 - 1, height |-> 0 - 1]

\* What the platform may report when Swapchain::new asks: min_image_count
\* and max_image_count (0 = no maximum) and current_extent of the surface
\* capabilities, the supported formats, and the window's inner size.
CapsUndefinedExtent ==
    [min_image_count |-> 1, max_image_count |-> 0, current_extent |-> UndefinedExtent,
     formats |-> {"B8G8R8A8_UNORM"}, window |-> [width |-> 800, height |-> 600]]

CapsFixedExtent ==
    [min_image_count |-> 2, max_image_count |-> 0,
     current_extent |-> [width |-> 1024, height |-> 768],
     formats |-> {"R8G8B8A8_SRGB"}, window |-> [width |-> 1024, height |-> 768]]

CapsClamped ==
    [min_image_count |-> 2, max_image_count |-> 2,
     current_extent |-> [width |-> 640, height |-> 480],
     formats |-> {"B8G8R8A8_UNORM", "R8G8B8A8_SRGB"},
     window |-> [width |-> 800, height |-> 600]]

SurfaceCaps == {CapsUndefinedExtent, CapsFixedExtent, CapsClamped}

\* Swapchain::new, the image count: min + 1, clamped to a non-zero max.
ImageCountByFrame(caps) == caps.min_image_count + 1 + frame_index

ImageCount(caps) ==
    LET image_count == caps.min_image_count + 1
    IN  IF caps.max_image_count > 0 /\ image_count > caps.max_image_count
        THEN caps.max_image_count
        ELSE image_count

\* Swapchain::new, the format: the requested one if the surface lists it,
\* else IMAGE_FORMAT.
ImageFormat(caps, format) == IF format \in caps.formats THEN format ELSE IMAGE_FORMAT

\* Swapchain::new, the extent: the window's inner size if the surface leaves
\* it open, else the surface's current extent.
SwapchainExtent(caps) ==
    IF caps.current_extent.width = UndefinedExtent.width
    THEN caps.window
    ELSE caps.current_extent

\* How many of the create_image_view calls of one Swapchain::new may fail.
ViewsLost == {0, 1}

\* Swapchain::new, image_views: images.iter().filter_map(|i| ..
\* create_image_view(..).ok()).collect() keeps the views that were created
\* and drops every failure.
ImageViews(images, lost) == IF lost < images THEN images - lost ELSE 0

\* Swapchain::new returning Ok: the images, the views that were created, and
\* one render semaphore of the swapchain's own per image (a failing
\* create_swapchain, get_swapchain_images or create_semaphore returns Err).
\* The driver is taken to create exactly the requested number of images.
\* built_for remembers what the platform reported, destroys counts the
\* Swapchain::destroy calls on this swapchain, and prev describes the
\* swapchain it replaced (exists = FALSE: it is the first): whether the
\* platform reported the same for both, whether they have the same image
\* count, format and extent, and how often the replaced one was destroyed.
SwapchainNew(caps, lost) ==
    [alive |-> TRUE, images |-> ImageCount(caps),
     views |-> ImageViews(ImageCount(caps), lost), semaphores |-> ImageCount(caps),
     format |-> ImageFormat(caps, IMAGE_FORMAT), extent |-> SwapchainExtent(caps),
     built_for |-> caps, destroys |-> 0,
     prev |-> [exists |-> FALSE, same_inputs |-> FALSE, same_result |-> FALSE,
               destroys |-> 0]]

\* The calls of Swapchain::new that can fail: the three surface queries,
\* create_swapchain, get_swapchain_images, and create_semaphore for the first
\* or for the last image (a failing create_image_view is not an error).
SwapchainNewFailures ==
    {"surface_query", "create_swapchain", "get_swapchain_images",
     "create_semaphore_first", "create_semaphore_last"}

\* Swapchain::new returning Err: what it created before the failing call.
\* The ? returns at once; nothing is destroyed on the way out.
SwapchainNewLeft(fail_at) ==
    CASE fail_at \in {"surface_query", "create_swapchain"} -> {}
      [] fail_at = "get_swapchain_images" -> {"swapchain"}
      [] fail_at = "create_semaphore_first" -> {"swapchain", "image_views"}
      [] fail_at = "create_semaphore_last" -> {"swapchain", "image_views", "semaphores"}

\* Swapchain::destroy: the swapchain, its views and its semaphores are destroyed;
\* the struct keeps the stale handles.
SwapchainDestroy(sc) == [sc EXCEPT !.alive = FALSE, !.destroys = sc.destroys + 1]

\* Engine::resize_swapchain, self.swapchain = Swapchain::new(..)?: the new
\* swapchain takes the place of the one just destroyed.
ResizeResultDropped(new) == SwapchainDestroy(swapchain)

ResizeResult(new) ==
    [new EXCEPT !.prev = [exists |-> TRUE,
                          same_inputs |-> new.built_for = swapchain.built_for,
                          same_result |-> /\ new.images = swapchain.images
                                          /\ new.format = swapchain.format
                                          /\ new.extent = swapchain.extent,
                          destroys |-> swapchain.destroys + 1]]

\* Swapchain::create_render_semaphores, called by Engine::new: the body is not
\* among the sources; per the design one semaphore per swapchain image.
create_render_semaphores(sc) == sc.images

(***************************************************************************)
(* The render call's log: what the current iteration has done.             *)
(***************************************************************************)
NoIndex == 0 - 1

IterStart ==
    [ slot |-> get_current_frame, start_index |-> frame_index,
      recreated |-> FALSE, waited |-> NoIndex, fence_reset |-> NoIndex,
      acquired |-> NoIndex, recorded |-> NoIndex, submitted |-> NoIndex,
      acquire_sem |-> NoIndex, submit_wait |-> NoIndex,
      signal_sem |-> NoIndex, wait_sem |-> NoIndex, presented |-> NoIndex,
      present_res |-> "none", advanced |-> FALSE, failure |-> "none",
      left_alive |-> {}, transitions |-> <<>>,
      outcome |-> "running", trace |-> <<>> ]

IterNone == [IterStart EXCEPT !.slot = NoIndex, !.start_index = NoIndex, !.outcome = "none"]

(***************************************************************************)
(* Engine (src/src/engine.rs) and the window events of src/src/app.rs.     *)
(***************************************************************************)
\* AppWrapper::window_event, Resized: Engine::resize only sets the flag.
ResizedInline ==
    /\ pc = "idle"
    /\ resize_events' = TRUE
    /\ swapchain' = SwapchainNew(surface, 0)
    /\ UNCHANGED <<pc, frame_index, fence, swapchain_semaphore, frames, gpu, render,
                   surface, resize_swapchain, render_semaphores, image_index, iter,
                   destroyed_in_use, reset_while_pending, destroy_order,
                   frames_begun, frames_done, slot_uses, allocVars, growVars, immVars>>

Resized ==
    /\ pc = "idle"
    /\ resize_swapchain' = TRUE
    /\ resize_events' = TRUE
    /\ UNCHANGED <<pc, frame_index, fence, swapchain_semaphore, frames, gpu, render,
                   surface, swapchain, render_semaphores, image_index, iter,
                   destroyed_in_use, reset_while_pending, destroy_order,
                   frames_begun, frames_done, slot_uses, allocVars, growVars, immVars>>

\* Engine::window_event, Occluded(occluded): render = !occluded.
Occluded ==
    /\ pc = "idle"
    /\ \E occluded \in BOOLEAN : render' = ~occluded
    /\ UNCHANGED <<pc, frame_index, fence, swapchain_semaphore, frames, gpu,
                   resize_swapchain, surface, swapchain, render_semaphores, image_index,
                   iter, destroyed_in_use, reset_while_pending, otherVars>>

\* The platform changes what the surface supports (the window moves or resizes).
SurfaceChange ==
    /\ pc = "idle"
    /\ \E caps \in SurfaceCaps \ {surface} : surface' = caps
    /\ UNCHANGED <<pc, frame_index, fence, swapchain_semaphore, frames, gpu,
                   resize_swapchain, render, swapchain, render_semaphores, image_index,
                   iter, destroyed_in_use, reset_while_pending, otherVars>>

\* AppWrapper::window_event, RedrawRequested: if engine.render { render }
\* else { sleep }.
RenderAllowedAlways == TRUE

RenderAllowed == render

\* RedrawRequested while occluded: the handler only sleeps.
RedrawOccluded ==
    /\ pc = "idle"
    /\ ~RenderAllowed
    /\ UNCHANGED vars

\* Engine::resize_swapchain: whether the old swapchain is destroyed with work
\* still pending on the queue.  The code calls Swapchain::destroy at once: it
\* neither waits for the device to be idle nor for the frame fences.
ResizeDestroysInUse == gpu # <<>>

\* AppWrapper::window_event, RedrawRequested: engine.render(gui_app)
\* .expect("could not render").  An Err of render panics: the process ends.
RenderErrIgnored == "idle"

RenderErr == "terminated"

\* RedrawRequested while visible: Engine::render starts.  With the flag set it
\* first runs resize_swapchain: destroy the old swapchain, build a new one from
\* the surface as it is now, clear the flag.  A failing Swapchain::new returns
\* the error out of render with the destroyed swapchain still in place.
RenderBegin ==
    /\ pc = "idle"
    /\ RenderAllowed
    /\ frames_begun < MaxFrames
    /\ frames_begun' = frames_begun + 1
    /\ image_index' = NoIndex
    /\ IF resize_swapchain
       THEN /\ destroyed_in_use' = (destroyed_in_use \/ ResizeDestroysInUse)
            /\ \E res \in {"ok"} \cup SwapchainNewFailures, lost \in ViewsLost :
                 IF res = "ok"
                 THEN /\ swapchain' = ResizeResult(SwapchainNew(surface, lost))
                      /\ resize_swapchain' = FALSE
                      /\ iter' = [IterStart EXCEPT !.recreated = TRUE]
                      /\ pc' = "wait"
                 ELSE /\ swapchain' = SwapchainDestroy(swapchain)
                      /\ resize_swapchain' = resize_swapchain
                      /\ iter' = [IterStart EXCEPT !.outcome = "err",
                                                   !.failure = "resize_swapchain",
                                                   !.left_alive = SwapchainNewLeft(res)]
                      /\ pc' = RenderErr
       ELSE /\ iter' = IterStart
            /\ pc' = "wait"
            /\ UNCHANGED <<swapchain, resize_swapchain, destroyed_in_use>>
    /\ UNCHANGED <<frame_index, fence, swapchain_semaphore, frames, gpu, render, surface,
                   render_semaphores, reset_while_pending, destroy_order,
                   frames_done, slot_uses, resize_events, allocVars, growVars, immVars>>

\* wait_for_fences(.., true, u64::MAX) returns once the fence is signaled.
FenceWaitSkipped(slot) == TRUE

FenceWaitDone(slot) == fence[slot]

\* Engine::render, the begin of a frame: wait for the current slot's fence
\* without timeout, then reset it, then free_textures and generate_ui.  A
\* failing wait_for_fences or reset_fences returns the error before the fence
\* is reset, a failing gui call after it; AppWrapper's expect then ends the
\* process.
WaitFence ==
    /\ pc = "wait"
    /\ FenceWaitDone(get_current_frame)
    /\ \E res \in {"ok", "fence_error", "gui_error"} :
         /\ fence' = IF res = "fence_error" THEN fence
                     ELSE [fence EXCEPT ![get_current_frame] = FALSE]
         /\ iter' = [iter EXCEPT
                  !.waited = IF res # "fence_error" /\ fence[get_current_frame]
                             THEN get_current_frame ELSE NoIndex,
                  !.fence_reset = IF res # "fence_error" THEN get_current_frame ELSE NoIndex,
                  !.trace = IF res # "fence_error"
                            THEN Append(iter.trace, "WaitPreviousFrame") ELSE iter.trace,
                  !.failure = IF res = "ok" THEN "none" ELSE res,
                  !.outcome = IF res = "ok" THEN iter.outcome ELSE "err"]
         /\ pc' = IF res = "ok" THEN "acquire" ELSE RenderErr
    /\ UNCHANGED <<frame_index, swapchain_semaphore, frames, gpu, resize_swapchain,
                   render, surface, swapchain, render_semaphores, image_index,
                   destroyed_in_use, reset_while_pending, otherVars>>

\* Engine::render, the two arms of the acquire match that give the frame up:
\* set the flag and return Ok.  Nothing else of the engine is touched.
AcquireStaleAdvancing ==
    /\ resize_swapchain' = TRUE
    /\ frame_index' = advance
    /\ pc' = "idle"

AcquireStale ==
    /\ resize_swapchain' = TRUE
    /\ frame_index' = frame_index
    /\ pc' = "idle"

\* Engine::render, the semaphore passed to acquire_next_image:
\* self.frames.get_current_frame().swapchain_semaphore().
AcquireSemaphore == get_current_frame

\* Engine::render, acquire_next_image with the current slot's semaphore:
\* out of date, an image flagged suboptimal, an image, or another error.
AcquireImage ==
    /\ pc = "acquire"
    /\ \E res \in {"out_of_date", "suboptimal", "ok", "error"} :
         CASE res = "out_of_date" ->
                /\ AcquireStale
                /\ iter' = [iter EXCEPT !.outcome = "short",
                               !.trace = iter.trace \o <<"AcquireImage", "NeedsResize">>]
                /\ UNCHANGED <<swapchain_semaphore, image_index>>
           [] res = "suboptimal" ->
                /\ AcquireStale
                /\ \E i \in 0 .. (swapchain.images - 1) :
                     /\ image_index' = i
                     /\ iter' = [iter EXCEPT !.outcome = "short", !.acquired = i,
                                    !.acquire_sem = AcquireSemaphore,
                                    !.trace = iter.trace \o <<"AcquireImage", "NeedsResize">>]
                /\ swapchain_semaphore' =
                       [swapchain_semaphore EXCEPT ![AcquireSemaphore] = TRUE]
           [] res = "ok" ->
                /\ \E i \in 0 .. (swapchain.images - 1) :
                     /\ image_index' = i
                     /\ iter' = [iter EXCEPT !.acquired = i,
                                    !.acquire_sem = AcquireSemaphore,
                                    !.trace = Append(iter.trace, "AcquireImage")]
                /\ swapchain_semaphore' =
                       [swapchain_semaphore EXCEPT ![AcquireSemaphore] = TRUE]
                /\ pc' = "record"
                /\ UNCHANGED <<resize_swapchain, frame_index>>
           [] res = "error" ->
                /\ iter' = [iter EXCEPT !.outcome = "err", !.failure = "acquire",
                               !.trace = Append(iter.trace, "AcquireImage")]
                /\ pc' = RenderErr
                /\ UNCHANGED <<resize_swapchain, frame_index, swapchain_semaphore,
                               image_index>>
    /\ UNCHANGED <<fence, frames, gpu, render, surface, swapchain, render_semaphores,
                   destroyed_in_use, reset_while_pending, otherVars>>

\* Whether the command buffer of slot has a submission the GPU has not completed.
Pending(slot) == \E n \in 1 .. Len(gpu) : gpu[n].cmd = slot

\* Whether a submission that signals slot's fence is still on the queue.
FencePending(slot) == \E n \in 1 .. Len(gpu) : gpu[n].slot = slot

\* Engine::render, let cmd = self.frames.get_current_frame().cmd_buffer(): the
\* slot whose command buffer the frame is recorded into and submitted.
CmdBufferOfNextFrame == advance

CurrentCmdBuffer == get_current_frame

\* Engine::record_commands, its transition_image calls in the order of the
\* body: image, old_layout, new_layout.  draw_background, draw_geometry and
\* draw_gui record no transition.
RecordTransitionsStaleOld ==
    << [image |-> "draw_image", old |-> "UNDEFINED", new |-> "GENERAL"],
       [image |-> "draw_image", old |-> "GENERAL", new |-> "COLOR_ATTACHMENT_OPTIMAL"],
       [image |-> "depth_image", old |-> "UNDEFINED", new |-> "DEPTH_ATTACHMENT_OPTIMAL"],
       [image |-> "draw_image", old |-> "COLOR_ATTACHMENT_OPTIMAL",
        new |-> "TRANSFER_SRC_OPTIMAL"],
       [image |-> "swapchain_image", old |-> "UNDEFINED", new |-> "TRANSFER_DST_OPTIMAL"],
       [image |-> "swapchain_image", old |-> "TRANSFER_DST_OPTIMAL",
        new |-> "COLOR_ATTACHMENT_OPTIMAL"],
       [image |-> "swapchain_image", old |-> "TRANSFER_DST_OPTIMAL",
        new |-> "PRESENT_SRC_KHR"] >>

RecordTransitions ==
    << [image |-> "draw_image", old |-> "UNDEFINED", new |-> "GENERAL"],
       [image |-> "draw_image", old |-> "GENERAL", new |-> "COLOR_ATTACHMENT_OPTIMAL"],
       [image |-> "depth_image", old |-> "UNDEFINED", new |-> "DEPTH_ATTACHMENT_OPTIMAL"],
       [image |-> "draw_image", old |-> "COLOR_ATTACHMENT_OPTIMAL",
        new |-> "TRANSFER_SRC_OPTIMAL"],
       [image |-> "swapchain_image", old |-> "UNDEFINED", new |-> "TRANSFER_DST_OPTIMAL"],
       [image |-> "swapchain_image", old |-> "TRANSFER_DST_OPTIMAL",
        new |-> "COLOR_ATTACHMENT_OPTIMAL"],
       [image |-> "swapchain_image", old |-> "COLOR_ATTACHMENT_OPTIMAL",
        new |-> "PRESENT_SRC_KHR"] >>

\* Engine::record_commands, how many transitions are recorded when the call
\* returns with res: reset_command_buffer and begin_command_buffer come
\* before the first, the image_views index and draw_gui before the last,
\* end_command_buffer after it.
TransitionsBefore(res) ==
    CASE res = "begin_command_buffer" -> 0
      [] res \in {"image_views", "draw_gui"} -> Len(RecordTransitions) - 1
      [] res \in {"end_command_buffer", "ok"} -> Len(RecordTransitions)

\* Engine::record_commands: reset the command buffer, then record the frame
\* into it.  A failing begin_command_buffer, draw_gui or end_command_buffer
\* returns the error out of render; self.swapchain.image_views()[image_index]
\* panics when the swapchain has no view at that index.
RecordCommands ==
    /\ pc = "record"
    /\ reset_while_pending' = (reset_while_pending \/ Pending(CurrentCmdBuffer))
    /\ \E res \in {"ok", "begin_command_buffer", "image_views", "draw_gui",
                    "end_command_buffer"} :
         /\ (res \in {"ok", "draw_gui", "end_command_buffer"}) => image_index < swapchain.views
         /\ (res = "image_views") => image_index >= swapchain.views
         /\ iter' = [iter EXCEPT
                        !.recorded = CurrentCmdBuffer,
                        !.transitions = SubSeq(RecordTransitions, 1, TransitionsBefore(res)),
                        !.failure = IF res \in {"ok", "image_views"} THEN "none" ELSE "record",
                        !.outcome = CASE res = "ok" -> iter.outcome
                                      [] res = "image_views" -> "panic"
                                      [] OTHER -> "err",
                        !.trace = Append(iter.trace, "RecordCommands")]
         /\ pc' = CASE res = "ok" -> "submit"
                    [] res = "image_views" -> "terminated"
                    [] OTHER -> RenderErr
    /\ UNCHANGED <<frame_index, fence, swapchain_semaphore, frames, gpu, resize_swapchain,
                   render, surface, swapchain, render_semaphores, image_index,
                   destroyed_in_use, otherVars>>

\* Engine::submit, the render semaphore the submission signals:
\* self.render_semaphores[image_index].
RenderSemaphoreBySlot == get_current_frame

RenderSemaphore == image_index

\* Engine::submit, the semaphore the submission waits on:
\* current_frame.swapchain_semaphore().
SubmitWaitOfNextFrame == advance

SubmitWaitSemaphore == get_current_frame

\* Engine::submit: queue_submit2 of the recorded command buffer, waiting
\* on the slot's acquisition semaphore, signaling the render semaphore and the
\* slot's fence.  Indexing past the end of render_semaphores panics.
Submit ==
    /\ pc = "submit"
    /\ Len(gpu) < MaxQueue
    /\ IF RenderSemaphore >= render_semaphores
       THEN /\ iter' = [iter EXCEPT !.outcome = "panic"]
            /\ pc' = "terminated"
            /\ UNCHANGED <<gpu, swapchain_semaphore>>
       ELSE \E ok \in BOOLEAN :
              IF ok
              THEN /\ gpu' = Append(gpu, [slot |-> get_current_frame,
                                          cmd |-> CurrentCmdBuffer,
                                          image |-> image_index,
                                          signal |-> RenderSemaphore])
                   /\ swapchain_semaphore' =
                          [swapchain_semaphore EXCEPT ![SubmitWaitSemaphore] = FALSE]
                   /\ iter' = [iter EXCEPT !.submitted = get_current_frame,
                                           !.submit_wait = SubmitWaitSemaphore,
                                           !.signal_sem = RenderSemaphore,
                                           !.trace = Append(iter.trace, "Submit")]
                   /\ pc' = "present"
              ELSE /\ iter' = [iter EXCEPT !.outcome = "err", !.failure = "submit"]
                   /\ pc' = RenderErr
                   /\ UNCHANGED <<gpu, swapchain_semaphore>>
    /\ UNCHANGED <<frame_index, fence, frames, resize_swapchain, render, surface,
                   swapchain, render_semaphores, image_index, destroyed_in_use,
                   reset_while_pending, otherVars>>

\* Engine::render after self.present(..)?: every Ok of present, stale or not,
\* is followed by self.frames.advance().
PresentAdvancesUnlessStale(res) == res = "ok"

PresentAdvances(res) == TRUE

\* Engine::present, the results of queue_present that set resize_swapchain:
\* Ok(true) (suboptimal) and ERROR_OUT_OF_DATE_KHR.
PresentFlagsOutOfDateOnly(res) == res = "out_of_date"

PresentFlags(res) == res \in {"out_of_date", "suboptimal"}

\* Engine::present, then the rest of Engine::render: queue_present waits on the
\* semaphore submit returned and presents image_index.  Out of date and
\* suboptimal set the flag and return Ok, so render goes on to advance the ring.
Present ==
    /\ pc = "present"
    /\ \E res \in {"out_of_date", "suboptimal", "ok", "error"} :
         IF res = "error"
         THEN /\ iter' = [iter EXCEPT !.wait_sem = iter.signal_sem,
                                      !.present_res = res,
                                      !.failure = "present",
                                      !.outcome = "err",
                                      !.trace = Append(iter.trace, "Present")]
              /\ pc' = RenderErr
              /\ UNCHANGED <<frame_index, resize_swapchain, frames_done, slot_uses>>
         ELSE /\ resize_swapchain' = (resize_swapchain \/ PresentFlags(res))
              /\ frames_done' = frames_done + 1
              /\ slot_uses' = [slot_uses EXCEPT ![get_current_frame] =
                                                  slot_uses[get_current_frame] + 1]
              /\ frame_index' = IF PresentAdvances(res) THEN advance ELSE frame_index
              /\ iter' = [iter EXCEPT !.wait_sem = iter.signal_sem,
                                      !.presented = image_index,
                                      !.present_res = res,
                                      !.advanced = PresentAdvances(res),
                                      !.outcome = "done",
                                      !.trace = iter.trace \o
                                                (IF PresentAdvances(res)
                                                 THEN <<"Present", "Advance">>
                                                 ELSE <<"Present">>)]
              /\ pc' = "idle"
    /\ UNCHANGED <<fence, swapchain_semaphore, frames, gpu, render, surface, swapchain,
                   render_semaphores, image_index, destroyed_in_use,
                   reset_while_pending, destroy_order, frames_begun, resize_events,
                   allocVars, growVars, immVars>>

\* The GPU completes the oldest submission: its fence is signaled.
GpuComplete ==
    /\ gpu # <<>>
    /\ fence' = [fence EXCEPT ![Head(gpu).slot] = TRUE]
    /\ gpu' = Tail(gpu)
    /\ UNCHANGED <<pc, frame_index, swapchain_semaphore, frames, resize_swapchain,
                   render, surface, swapchain, render_semaphores, image_index, iter,
                   destroyed_in_use, reset_while_pending, otherVars>>

\* CloseRequested: the event loop exits and AppWrapper::exiting runs
\* Engine::destroy, which starts with device_wait_idle.
CloseRequested ==
    /\ pc = "idle"
    /\ pc' = "exiting"
    /\ UNCHANGED <<frame_index, fence, swapchain_semaphore, frames, gpu,
                   resize_swapchain, render, surface, swapchain, render_semaphores,
                   image_index, iter, destroyed_in_use, reset_while_pending, otherVars>>

(***************************************************************************)
(* Growable descriptor allocator (src/src/descriptors.rs).                 *)
(***************************************************************************)
PoolIds == 1 .. MaxPools

NoPool == NoIndex

\* The capacity ceiling of get_pool and new.
MAX_SETS_PER_POOL == 4092

\* pool_capacity += pool_capacity / 2; pool_capacity = pool_capacity.min(4092).
\* The sum of the u32 code cannot wrap for the capacities used here, which
\* stay far below 2^32.
GrowCapacityRounded(c) == Min(c + ((c + 1) \div 2), MAX_SETS_PER_POOL)

GrowCapacityUncapped(c) == c + (c \div 2)

GrowCapacity(c) == Min(c + (c \div 2), MAX_SETS_PER_POOL)

\* What allocate_descriptor_sets may return.
AllocResults == {"ok", "out_of_pool_memory", "fragmented_pool", "error"}

\* The driver hands out a set of a live pool only while the pool has a set
\* left; it may refuse for any of the other reasons at any time (a layout can
\* need more descriptors of a type than the pool has left).  Allocating from
\* a destroyed pool is undefined: any answer is possible.
DriverMayReturn(pls, p, r) ==
    r = "ok" => (pls[p].state = "destroyed" \/ pls[p].used < pls[p].cap)

\* The pools the device has not created yet.
FreeIds(pls) == {p \in PoolIds : pls[p].state = "none"}

\* DescriptorAllocatorGrowable::create_pool: a new pool of set_count sets.
create_pool(pls, set_count) ==
    LET p == CHOOSE q \in FreeIds(pls) : \A o \in FreeIds(pls) : q <= o
    IN  [pool |-> p,
         pools |-> [pls EXCEPT ![p] = [state |-> "live", cap |-> set_count,
                                       used |-> 0, destroys |-> 0]]]

\* The allocator's fields as one value, with the outcome of a get_pool call.
AllocState == [ready |-> ready_pool, full |-> full_pool, capacity |-> pool_capacity,
               pools |-> pools, ok |-> TRUE, pool |-> NoPool]

\* DescriptorAllocatorGrowable::get_pool: pop the last ready pool, else create
\* one of pool_capacity sets and grow pool_capacity for the next creation.
\* create_ok is the driver's answer to create_descriptor_pool.
get_pool_creating(st, create_ok) ==
    IF create_ok /\ FreeIds(st.pools) # {}
    THEN LET c == create_pool(st.pools, st.capacity)
         IN  [st EXCEPT !.ok = TRUE, !.pool = c.pool, !.pools = c.pools,
                        !.capacity = GrowCapacity(st.capacity)]
    ELSE [st EXCEPT !.ok = FALSE, !.pool = NoPool]

get_pool(st, create_ok) ==
    IF st.ready # <<>>
    THEN [st EXCEPT !.ok = TRUE, !.pool = st.ready[Len(st.ready)],
                    !.ready = SubSeq(st.ready, 1, Len(st.ready) - 1)]
    ELSE IF create_ok /\ FreeIds(st.pools) # {}
         THEN LET c == create_pool(st.pools, st.capacity)
              IN  [st EXCEPT !.ok = TRUE, !.pool = c.pool, !.pools = c.pools,
                             !.capacity = GrowCapacity(st.capacity)]
         ELSE [st EXCEPT !.ok = FALSE, !.pool = NoPool]

\* The driver allocates one set from pool p.
TakeSet(pls, p) == [pls EXCEPT ![p].used = pls[p].used + 1]

\* DescriptorAllocatorGrowable::allocate, self.ready_pool.push(pool): the pool
\* a set was allocated from goes back onto the ready list.
ReturnPoolToFull(st, p) == [st EXCEPT !.full = Append(st.full, p)]

ReturnPool(st, p) == [st EXCEPT !.ready = Append(st.ready, p)]

\* DescriptorAllocatorGrowable::allocate, the match arm that retries: the
\* first attempt failed with ERROR_OUT_OF_POOL_MEMORY or ERROR_FRAGMENTED_POOL.
RetryOnAnyError(r) == r # "ok"

RetryOn(r) == r \in {"out_of_pool_memory", "fragmented_pool"}

\* DescriptorAllocatorGrowable::allocate (allocate_push_next has the same
\* body): the allocator after the call and the call's log.  c1, r1 are the
\* driver's answers to the first get_pool and the first allocation; c2, r2 to
\* the second ones, when the call gets that far.
AllocateResult(op, c1, r1, c2, r2) ==
    LET g1 == get_pool(AllocState, c1)
        log == [op |-> op, first |-> g1.pool, r1 |-> "none", second |-> NoPool,
                r2 |-> "none", attempts |-> 0, result |-> "err", set |-> <<NoPool, 0>>]
    IN  IF ~g1.ok
        THEN [st |-> g1, log |-> log]
        ELSE IF r1 = "ok"
        THEN [st |-> ReturnPool([g1 EXCEPT !.pools = TakeSet(g1.pools, g1.pool)], g1.pool),
              log |-> [log EXCEPT !.r1 = r1, !.attempts = 1, !.result = "ok",
                                  !.set = <<g1.pool, g1.pools[g1.pool].used + 1>>]]
        ELSE IF RetryOn(r1)
        THEN LET g2 == get_pool([g1 EXCEPT !.full = Append(g1.full, g1.pool)], c2)
                 log2 == [log EXCEPT !.r1 = r1, !.attempts = 1, !.second = g2.pool]
             IN  IF ~g2.ok
                 THEN [st |-> g2, log |-> log2]
                 ELSE IF r2 = "ok"
                 THEN [st |-> ReturnPool([g2 EXCEPT !.pools = TakeSet(g2.pools, g2.pool)],
                                         g2.pool),
                       log |-> [log2 EXCEPT !.r2 = r2, !.attempts = 2, !.result = "ok",
                                            !.set = <<g2.pool, g2.pools[g2.pool].used + 1>>]]
                 ELSE [st |-> g2, log |-> [log2 EXCEPT !.r2 = r2, !.attempts = 2]]
        ELSE [st |-> g1, log |-> [log EXCEPT !.r1 = r1, !.attempts = 1]]

\* The driver's possible answers to the create_descriptor_pool of a get_pool
\* call: it is not asked when a ready pool exists, and it cannot create a
\* pool once MaxPools exist.
CreateAnswers(st) ==
    IF st.ready # <<>> THEN {TRUE}
    ELSE IF FreeIds(st.pools) = {} THEN {FALSE}
    ELSE BOOLEAN

\* The driver's possible answers to allocate_descriptor_sets on the pool that
\* get_pool returned ("none": get_pool failed, the driver is not asked).
AllocAnswers(g) ==
    IF g.ok THEN {r \in AllocResults : DriverMayReturn(g.pools, g.pool, r)} ELSE {"none"}

\* How many pools a call created, and the pool created last (create_pool
\* takes the lowest free id).
CreatedCount(before, after) == Cardinality(FreeIds(before)) - Cardinality(FreeIds(after))

NewestPool(pls) == CHOOSE p \in PoolIds \ FreeIds(pls) : \A o \in PoolIds \ FreeIds(pls) : o <= p

\* One call of allocate; allocate_push_next is the same body, statement for
\* statement, with a p_next chain on the allocate info.
Allocate ==
    /\ pc = "idle"
    /\ \E c1 \in CreateAnswers(AllocState) :
      LET g1 == get_pool(AllocState, c1)
      IN  \E r1 \in AllocAnswers(g1) :
            LET retry == g1.ok /\ r1 # "ok" /\ RetryOn(r1)
                st1 == [g1 EXCEPT !.full = Append(g1.full, g1.pool)]
            IN  \E c2 \in (IF retry THEN CreateAnswers(st1) ELSE {TRUE}) :
                  \E r2 \in (IF retry THEN AllocAnswers(get_pool(st1, c2)) ELSE {"none"}) :
                    \E out \in {AllocateResult("allocate", c1, r1, c2, r2)} :
                      \E n \in {CreatedCount(pools, out.st.pools)} :
                        /\ ready_pool' = out.st.ready
                        /\ full_pool' = out.st.full
                        /\ pool_capacity' = out.st.capacity
                        /\ pools' = out.st.pools
                        /\ last' = out.log
                        /\ sets_out' = IF out.log.result = "ok"
                                       THEN sets_out \cup {out.log.set}
                                       ELSE sets_out
                        /\ pools_created' = pools_created + n
                        /\ created_capacity' =
                               IF n > 0 THEN out.st.pools[NewestPool(out.st.pools)].cap
                               ELSE created_capacity
                        /\ UNCHANGED <<engineVars, max_sets, immVars>>

\* The sets handed out that the pools still hold: resetting or destroying a
\* pool frees every set allocated from it.
SetsLeft(sets, pls) ==
    {s \in sets : pls[s[1]].state = "live" /\ s[2] <= pls[s[1]].used}

\* reset_descriptor_pool on every pool of the sequence.
ResetAll(pls, seq) ==
    [p \in PoolIds |->
        IF \E n \in 1 .. Len(seq) : seq[n] = p THEN [pls[p] EXCEPT !.used = 0] ELSE pls[p]]

\* DescriptorAllocatorGrowable::clear_pools.  fail_at = 0: every reset
\* succeeds.  fail_at = n: the n-th reset_descriptor_pool of the call (ready
\* pools first, then full pools) fails and the ? returns from the middle of
\* the loop: the full pools reset so far are already pushed onto ready_pool,
\* and full_pool.clear() is not reached.
ClearPoolsResultDroppingFull(fail_at) ==
    [ready |-> ready_pool,
     full |-> IF fail_at = 0 THEN <<>> ELSE full_pool,
     pools |-> ResetAll(pools, ready_pool \o full_pool),
     result |-> IF fail_at = 0 THEN "ok" ELSE "err"]

ClearPoolsResult(fail_at) ==
    LET nr == Len(ready_pool)
        done == IF fail_at = 0 THEN Len(full_pool)
                ELSE IF fail_at <= nr THEN 0 ELSE fail_at - nr - 1
        resets == IF fail_at = 0 THEN ready_pool \o full_pool
                  ELSE SubSeq(ready_pool \o full_pool, 1, fail_at - 1)
    IN  [ready |-> ready_pool \o SubSeq(full_pool, 1, done),
         full |-> IF fail_at = 0 THEN <<>> ELSE full_pool,
         pools |-> ResetAll(pools, resets),
         result |-> IF fail_at = 0 THEN "ok" ELSE "err"]

ClearPools ==
    /\ pc = "idle"
    /\ \E fail_at \in 0 .. (Len(ready_pool) + Len(full_pool)) :
        /\ fail_at # 0 => Len(ready_pool) + Len(full_pool) <= MaxListLen
        /\ \E out \in {ClearPoolsResult(fail_at)} :
               /\ ready_pool' = out.ready
               /\ full_pool' = out.full
               /\ pools' = out.pools
               /\ sets_out' = SetsLeft(sets_out, out.pools)
               /\ last' = [op |-> "clear_pools", first |-> NoPool, r1 |-> "none",
                           second |-> NoPool, r2 |-> "none", attempts |-> 0,
                           result |-> out.result, set |-> <<NoPool, 0>>]
        /\ UNCHANGED <<pool_capacity, engineVars, growVars, immVars>>

\* How many times p occurs in the sequence.
RECURSIVE Occurrences(_, _)
Occurrences(seq, p) ==
    IF seq = <<>> THEN 0
    ELSE (IF Head(seq) = p THEN 1 ELSE 0) + Occurrences(Tail(seq), p)

\* DescriptorAllocatorGrowable::destroy_pools: destroy_descriptor_pool on every
\* entry of ready_pool, then of full_pool; both lists are cleared.
DestroyPoolsResult ==
    [p \in PoolIds |->
        LET n == Occurrences(ready_pool, p) + Occurrences(full_pool, p)
        IN  IF n = 0 THEN pools[p]
            ELSE [pools[p] EXCEPT !.state = "destroyed", !.destroys = pools[p].destroys + n]]

DestroyPoolsKeepingLists ==
    /\ pools' = DestroyPoolsResult
    /\ UNCHANGED <<ready_pool, full_pool>>

DestroyPoolsLists ==
    /\ pools' = DestroyPoolsResult
    /\ ready_pool' = <<>>
    /\ full_pool' = <<>>

DestroyPools ==
    /\ pc = "idle"
    /\ DestroyPoolsLists
    /\ sets_out' = SetsLeft(sets_out, DestroyPoolsResult)
    /\ last' = [op |-> "destroy_pools", first |-> NoPool, r1 |-> "none",
                second |-> NoPool, r2 |-> "none", attempts |-> 0,
                result |-> "ok", set |-> <<NoPool, 0>>]
    /\ UNCHANGED <<pool_capacity, engineVars, growVars, immVars>>

\* DescriptorAllocatorGrowable::get_pool with no ready pool left, as at every
\* allocation that exhausts its pool: create a pool of pool_capacity sets,
\* then grow pool_capacity for the next one.  Only the capacity counter is
\* followed here; the pool objects are those of Allocate.
GetPoolCreates ==
    /\ pools_created < MaxCreated
    /\ created_capacity' = pool_capacity
    /\ pool_capacity' = GrowCapacity(pool_capacity)
    /\ pools_created' = pools_created + 1
    /\ UNCHANGED <<engineVars, ready_pool, full_pool, pools, last, sets_out,
                   max_sets, immVars>>

(***************************************************************************)
(* Immediate submission (src/src/immediate.rs).                            *)
(***************************************************************************)
\* Engine's two contexts, and the queues a caller may pass to submit.
ImmediateContexts == {"immediate_graphics", "immediate_transfer"}

Queues == {"graphics_queue", "transfer_queue"}

\* ImmediateSubmit::new, FenceCreateInfo with FenceCreateFlags::SIGNALED.
ImmediateNewFenceUnsignaled == [c \in ImmediateContexts |-> FALSE]

ImmediateNewFence == [c \in ImmediateContexts |-> TRUE]

\* ImmediateSubmit::new: the fence is created SIGNALED, nothing is submitted.
ImmediateNew ==
    /\ imm_pc = "idle"
    /\ imm_fence = ImmediateNewFence
    /\ imm_pending = [c \in ImmediateContexts |-> 0]
    /\ imm_call = [ctx |-> "none", queue |-> "none", steps |-> <<>>, func_calls |-> 0,
                   signal_fence |-> "none", entry_signaled |-> TRUE,
                   entry_pending |-> FALSE, result |-> "none"]

\* ImmediateSubmit::submit, its calls in the order of the body, up to the
\* blocking wait.  All but func return a result that ? propagates.
ImmediateSubmitSteps ==
    << "reset_fences", "reset_command_buffer", "begin_command_buffer", "func",
       "end_command_buffer", "queue_submit2" >>

\* The calls of submit that can fail.
ImmediateFallible == {n \in 1 .. Len(ImmediateSubmitSteps) : ImmediateSubmitSteps[n] # "func"}

\* ImmediateSubmit::submit up to its wait.  fail_at = 0: every call up to
\* queue_submit2 succeeds and the thread blocks in wait_for_fences; fail_at = n:
\* the n-th call fails, without effect, and submit returns its error.
ImmediateSubmitCall ==
    /\ imm_pc = "idle"
    /\ \E ctx \in ImmediateContexts, queue \in Queues, fail_at \in {0} \cup ImmediateFallible :
         LET done == IF fail_at = 0 THEN ImmediateSubmitSteps
                     ELSE SubSeq(ImmediateSubmitSteps, 1, fail_at - 1)
             did(step) == \E n \in 1 .. Len(done) : done[n] = step
         IN  /\ imm_fence' = IF did("reset_fences")
                             THEN [imm_fence EXCEPT ![ctx] = FALSE] ELSE imm_fence
             /\ imm_pending' = IF did("queue_submit2")
                               THEN [imm_pending EXCEPT ![ctx] = imm_pending[ctx] + 1]
                               ELSE imm_pending
             /\ imm_call' = [ctx |-> ctx, queue |-> queue, steps |-> done,
                             func_calls |-> IF did("func") THEN 1 ELSE 0,
                             signal_fence |-> IF did("queue_submit2") THEN ctx ELSE "none",
                             entry_signaled |-> imm_fence[ctx],
                             entry_pending |-> imm_pending[ctx] > 0,
                             result |-> IF fail_at = 0 THEN "running" ELSE "err"]
             /\ imm_pc' = IF fail_at = 0 THEN "wait" ELSE "idle"
    /\ UNCHANGED <<engineVars, allocVars, growVars>>

\* The queue completes a context's oldest submission: the fence it was
\* submitted with is signaled.
ImmediateGpuComplete ==
    /\ \E ctx \in ImmediateContexts :
         /\ imm_pending[ctx] > 0
         /\ imm_pending' = [imm_pending EXCEPT ![ctx] = imm_pending[ctx] - 1]
         /\ imm_fence' = [imm_fence EXCEPT ![ctx] = TRUE]
    /\ UNCHANGED <<imm_pc, imm_call, engineVars, allocVars, growVars>>

\* wait_for_fences(&[self.fence], true, u64::MAX) returns Ok once the fence is
\* signaled.
ImmediateWaitSkipped(ctx) == TRUE

ImmediateWaitDone(ctx) == imm_fence[ctx]

\* ImmediateSubmit::submit, the end: wait_for_fences returns, Ok with the
\* fence signaled, or an error at any time, which ? returns with the
\* submission still on the queue.
ImmediateWaitReturn ==
    /\ imm_pc = "wait"
    /\ \E res \in {"ok", "error"} :
         /\ res = "ok" => ImmediateWaitDone(imm_call.ctx)
         /\ res = "error" => imm_pending[imm_call.ctx] < MaxImmediatePending
         /\ imm_call' = [imm_call EXCEPT
                            !.steps = IF res = "ok" THEN Append(imm_call.steps, "wait_for_fences")
                                      ELSE imm_call.steps,
                            !.result = IF res = "ok" THEN "ok" ELSE "err"]
    /\ imm_pc' = "idle"
    /\ UNCHANGED <<imm_fence, imm_pending, engineVars, allocVars, growVars>>

(***************************************************************************)
(* Engine::new, the uploads (src/src/engine.rs, src/src/mesh.rs).          *)
(***************************************************************************)
\* Where the thread is when ImmediateSubmit::submit is called.  The only
\* call that is reached is GPUMeshBuffers::new, which load_gltf_from_path
\* runs for every mesh inside Engine::new (AllocatedImage::with_data has no
\* caller); no function that Engine::render runs calls it.
UploadSitesWithRecord == {"setup", "record"}

UploadSites == {"setup"}

\* GPUMeshBuffers::new: immediate_submit.submit(device, transfer_queue, ..)
\* on Engine::new's immediate_transfer.  After a failed upload the ? of
\* load_gltf_from_path lets no further one start.
SetupUpload ==
    /\ pc \in UploadSites
    /\ imm_call.result # "err"
    /\ ImmediateSubmitCall
    /\ imm_call'.ctx = "immediate_transfer"
    /\ imm_call'.queue = "transfer_queue"

\* An upload returned Err: Engine::new returns it and AppWrapper's
\* expect("could not create engine") ends the process.
SetupFailed ==
    /\ pc = "setup"
    /\ imm_pc = "idle"
    /\ imm_call.result = "err"
    /\ pc' = "terminated"
    /\ UNCHANGED <<frame_index, fence, swapchain_semaphore, frames, gpu,
                   resize_swapchain, render, surface, swapchain, render_semaphores,
                   image_index, iter, destroyed_in_use, reset_while_pending, otherVars>>

\* Every mesh is uploaded: Engine::new returns Ok and the event loop runs.
SetupDone ==
    /\ pc = "setup"
    /\ imm_pc = "idle"
    /\ imm_call.result # "err"
    /\ pc' = "idle"
    /\ UNCHANGED <<frame_index, fence, swapchain_semaphore, frames, gpu,
                   resize_swapchain, render, surface, swapchain, render_semaphores,
                   image_index, iter, destroyed_in_use, reset_while_pending, otherVars>>

(***************************************************************************)
(* Engine::destroy (src/src/engine.rs).                                    *)
(***************************************************************************)
\* Engine::destroy, its calls in the order of the body: device_wait_idle,
\* then the objects it destroys.
EngineDestroySteps ==
    << "device_wait_idle", "frames", "meshes", "mesh_pipeline", "gui", "immediate_graphics",
       "immediate_transfer", "background_effects", "descriptor_allocator",
       "depth_image", "draw_image", "allocator", "swapchain", "render_semaphores",
       "device", "surface", "debug_messenger", "instance" >>

\* Engine::destroy, device_wait_idle: it returns once no queue of the device
\* has work left.
DeviceWaitIdleSkipped == TRUE

DeviceWaitIdle == gpu = <<>> /\ \A c \in ImmediateContexts : imm_pending[c] = 0

\* Engine::destroy, run by AppWrapper::exiting.  device_wait_idle returns once
\* the queue is empty; Frames::destroy runs FrameData::destroy on every slot
\* (command pool, fence, semaphore, then destroy_pools of the slot's
\* allocator); Swapchain::destroy and the loop over render_semaphores follow.
EngineDestroy ==
    /\ pc = "exiting"
    /\ DeviceWaitIdle
    /\ frames' = [k \in Slots |-> "destroyed"]
    /\ DestroyPoolsLists
    /\ sets_out' = SetsLeft(sets_out, DestroyPoolsResult)
    /\ last' = [op |-> "destroy_pools", first |-> NoPool, r1 |-> "none",
                second |-> NoPool, r2 |-> "none", attempts |-> 0,
                result |-> "ok", set |-> <<NoPool, 0>>]
    /\ swapchain' = SwapchainDestroy(swapchain)
    /\ render_semaphores' = 0
    /\ destroy_order' = EngineDestroySteps
    /\ pc' = "destroyed"
    /\ UNCHANGED <<frame_index, fence, swapchain_semaphore, gpu, resize_swapchain,
                   render, surface, image_index, iter, destroyed_in_use,
                   reset_while_pending, countVars, pool_capacity, growVars, immVars>>

(***************************************************************************)
(* Initial states and specifications.                                      *)
(***************************************************************************)
NoPools == [p \in PoolIds |-> [state |-> "none", cap |-> 0, used |-> 0, destroys |-> 0]]

LogNone == [op |-> "none", first |-> NoPool, r1 |-> "none", second |-> NoPool,
            r2 |-> "none", attempts |-> 0, result |-> "ok", set |-> <<NoPool, 0>>]

\* DescriptorAllocatorGrowable::new(device, max_sets, ratios): one ready pool
\* of max_sets sets; pool_capacity is already grown once.
AllocatorNew(n) ==
    LET c == create_pool(NoPools, n)
    IN  /\ max_sets = n
        /\ ready_pool = <<c.pool>>
        /\ full_pool = <<>>
        /\ pool_capacity = GrowCapacity(n)
        /\ pools = c.pools
        /\ last = LogNone
        /\ sets_out = {}
        /\ pools_created = 0
        /\ created_capacity = n

\* Engine::new: the swapchain is built from the surface, the engine's render
\* semaphores from the swapchain, the frame ring with signaled fences.
EngineNewFields(caps, lost) ==
    /\ frame_index = 0
    /\ fence = FramesNewFence
    /\ swapchain_semaphore = [k \in Slots |-> FALSE]
    /\ frames = [k \in Slots |-> "live"]
    /\ gpu = <<>>
    /\ resize_swapchain = FALSE
    /\ render = TRUE
    /\ surface = caps
    /\ swapchain = SwapchainNew(caps, lost)
    /\ render_semaphores = create_render_semaphores(SwapchainNew(caps, lost))
    /\ image_index = NoIndex
    /\ iter = IterNone
    /\ destroyed_in_use = FALSE
    /\ reset_while_pending = FALSE
    /\ destroy_order = <<>>
    /\ frames_begun = 0
    /\ frames_done = 0
    /\ slot_uses = [k \in Slots |-> 0]
    /\ resize_events = FALSE

\* Engine::new has returned: the event loop waits for the next event.
EngineNew(caps, lost) ==
    /\ pc = "idle"
    /\ EngineNewFields(caps, lost)

\* The per-frame allocators play no part in the render loop: in Spec the
\* allocator stays as Frames::new constructs it, with max_sets = 1000.
Init ==
    /\ \E caps \in SurfaceCaps, lost \in ViewsLost : EngineNew(caps, lost)
    /\ AllocatorNew(1000)
    /\ ImmediateNew

Next ==
    \/ Resized
    \/ Occluded
    \/ SurfaceChange
    \/ RedrawOccluded
    \/ RenderBegin
    \/ WaitFence
    \/ AcquireImage
    \/ RecordCommands
    \/ Submit
    \/ Present
    \/ GpuComplete
    \/ CloseRequested
    \/ EngineDestroy

Spec == Init /\ [][Next]_vars

InitAlloc ==
    /\ EngineNew(CapsUndefinedExtent, 0)
    /\ ImmediateNew
    /\ \E n \in InitMaxSets : AllocatorNew(n)

NextAlloc ==
    \/ Allocate
    \/ ClearPools
    \/ DestroyPools

SpecAlloc == InitAlloc /\ [][NextAlloc]_vars

\* The capacity counter alone, from a range of starting capacities.
InitGrow ==
    /\ EngineNew(CapsUndefinedExtent, 0)
    /\ \E n \in GrowMaxSets : AllocatorNew(n)
    /\ ImmediateNew

NextGrow == GetPoolCreates

SpecGrow == InitGrow /\ [][NextGrow]_vars

\* The immediate contexts, called in any order with any queue.
NextImmediate ==
    \/ ImmediateSubmitCall
    \/ ImmediateGpuComplete
    \/ ImmediateWaitReturn

SpecImmediate == InitAlloc /\ [][NextImmediate]_vars

\* The allocator in use, then the application exits: CloseRequested and
\* Engine::destroy after any sequence of allocator calls.
NextTeardown ==
    \/ Allocate
    \/ ClearPools
    \/ DestroyPools
    \/ CloseRequested
    \/ EngineDestroy

SpecTeardown == InitAlloc /\ [][NextTeardown]_vars

\* The application from inside Engine::new: the mesh uploads, then the render
\* loop of Spec.
InitSetup ==
    /\ pc = "setup"
    /\ \E lost \in ViewsLost :
         EngineNewFields(CapsFixedExtent, lost)
    /\ AllocatorNew(1000)
    /\ ImmediateNew

NextSetup ==
    \/ SetupUpload
    \/ ImmediateGpuComplete
    \/ ImmediateWaitReturn
    \/ SetupFailed
    \/ SetupDone
    \/ Resized
    \/ Occluded
    \/ SurfaceChange
    \/ RedrawOccluded
    \/ RenderBegin
    \/ WaitFence
    \/ AcquireImage
    \/ RecordCommands
    \/ Submit
    \/ Present
    \/ GpuComplete
    \/ CloseRequested
    \/ EngineDestroy

SpecSetup == InitSetup /\ [][NextSetup]_vars

(***************************************************************************)
(* Properties.                                                             *)
(***************************************************************************)
InSeq(seq, x) == \E n \in 1 .. Len(seq) : seq[n] = x

NoDuplicates(seq) == \A m, n \in 1 .. Len(seq) : m # n => seq[m] # seq[n]

\* C1: whenever a render call has reset and re-recorded a slot's command
\* buffer, the same call has before that completed a wait on that slot's
\* fence (the fence was signaled when the wait returned) and reset that
\* fence; and no command buffer is ever reset while a submission of it is
\* still pending on the GPU.
C1_FenceWaitedBeforeRecord ==
    /\ ~reset_while_pending
    /\ iter.recorded # NoIndex =>
         /\ iter.waited = iter.recorded
         /\ iter.fence_reset = iter.recorded

\* C1 witness: slot 0 has been recorded again while the frame submitted from
\* slot 1 after slot 0's previous frame is still on the queue.
C1_Witness ==
    /\ pc = "submit"
    /\ iter.recorded = 0
    /\ Len(gpu) = 1
    /\ gpu[1].cmd = 1

\* C2: the render loop never sits in its unbounded fence wait on a fence that
\* is unsignaled and that no pending submission will signal; after a
\* short-circuited iteration the next wait returns.
C2_WaitAlwaysReturns ==
    pc = "wait" => (fence[get_current_frame] \/ FencePending(get_current_frame))

\* C3: a render call that gave the frame up at acquire (out of date, or a
\* suboptimal image) has recorded, submitted and presented nothing, has set
\* resize_swapchain, has returned Ok (the process goes on), and has left
\* frame_index and every slot's objects as they were.
C3_ShortCircuitKeepsRing ==
    iter.outcome = "short" =>
        /\ pc # "terminated"
        /\ iter.recorded = NoIndex
        /\ iter.submitted = NoIndex
        /\ iter.presented = NoIndex
        /\ ~iter.advanced
        /\ resize_swapchain
        /\ frame_index = iter.start_index
        /\ pc = "idle" => \A k \in Slots : frames[k] = "live"

\* C3 witness: a call has returned from the suboptimal arm, with an image
\* acquired, while the frame before it is still on the queue.
C3_Witness ==
    /\ pc = "idle"
    /\ iter.outcome = "short"
    /\ iter.acquired # NoIndex
    /\ gpu # <<>>

\* C4: no swapchain is destroyed by a recreation while submitted work that
\* uses it is still pending (the device is idle, or every frame's work has
\* completed, when Swapchain::destroy runs).
C4_SwapchainDestroyedWhenIdle == ~destroyed_in_use

\* C5: at most FRAMES_IN_FLIGHT submitted frames have a fence that has not
\* signaled yet, and while the CPU acquires, records and submits a frame no
\* earlier submission of the same slot is pending.
C5_BoundedFramesInFlight ==
    /\ Len(gpu) <= FRAMES_IN_FLIGHT
    /\ pc \in {"acquire", "record", "submit"} => ~FencePending(get_current_frame)

\* C5 witness: FRAMES_IN_FLIGHT frames are on the queue at once.
C5_Witness == Len(gpu) = FRAMES_IN_FLIGHT

\* C6: the semaphore a frame's submit signals, and the one its present waits
\* on, is the render semaphore at the image index this iteration's acquire
\* returned, and present presents that image index.
C6_RenderSemaphoreByImageIndex ==
    /\ iter.submitted # NoIndex => iter.signal_sem = iter.acquired
    /\ iter.presented # NoIndex =>
         /\ iter.wait_sem = iter.acquired
         /\ iter.presented = iter.acquired

\* C6 witness: a frame was presented whose image index differs from the
\* index of the frame slot that rendered it.
C6_Witness ==
    /\ iter.presented # NoIndex
    /\ iter.presented # iter.slot
    /\ iter.outcome = "done"

\* C7: while a swapchain exists, the engine holds exactly one render
\* semaphore per image of the current swapchain.
C7_SemaphorePerImage == swapchain.alive => render_semaphores = swapchain.images

\* C8: no descriptor pool is in both the ready list and the full list, and
\* none is twice in one list.
C8_ListsDisjoint == NoDuplicates(ready_pool \o full_pool)

\* C9: after destroy_pools both lists are empty and every pool the allocator
\* ever created has been destroyed exactly once.
C9_EveryPoolDestroyedOnce ==
    last.op = "destroy_pools" =>
        /\ ready_pool = <<>>
        /\ full_pool = <<>>
        /\ \A p \in PoolIds : pools[p].state # "none" => pools[p].destroys = 1

\* C10: an allocate call whose first attempt fails with out-of-pool-memory
\* or fragmentation has put that pool on the full list and, when it got
\* another pool, has retried exactly once, returning the retry's error if
\* the retry failed; a first attempt failing with any other error is
\* returned without a retry.  No call makes more than two attempts.
C10_RetryExactlyOnce ==
    last.op = "allocate" =>
        /\ last.attempts <= 2
        /\ last.r1 \in {"out_of_pool_memory", "fragmented_pool"} =>
             /\ InSeq(full_pool, last.first)
             /\ last.second # NoPool => (last.attempts = 2 /\ last.r2 # "none")
             /\ last.second = NoPool => (last.attempts = 1 /\ last.result = "err")
             /\ last.r2 = "ok" => last.result = "ok"
             /\ last.r2 \notin {"ok", "none"} => last.result = "err"
        /\ last.r1 = "error" =>
             /\ last.attempts = 1
             /\ last.second = NoPool
             /\ last.r2 = "none"
             /\ last.result = "err"
        /\ last.r1 = "ok" => (last.attempts = 1 /\ last.result = "ok")

\* C10 witness: the first attempt hit an exhausted pool, a second pool was
\* obtained, and the one retry failed too.
C10_Witness ==
    /\ last.op = "allocate"
    /\ last.r1 = "out_of_pool_memory"
    /\ last.second # NoPool
    /\ last.attempts = 2
    /\ last.result = "err"

\* C11: a pool is added to the full list only by an allocate call whose
\* attempt on that very pool failed, and a pool of the full list is added to
\* the ready list only by clear_pools; no other step moves a pool between
\* the two lists.
C11_MovesOnlyByFailureOrClear ==
    [][\A p \in PoolIds :
         /\ Occurrences(full_pool', p) > Occurrences(full_pool, p) =>
              /\ last'.op = "allocate"
              /\ last'.first = p
              /\ last'.r1 \notin {"ok", "none"}
         /\ (InSeq(full_pool, p) /\ Occurrences(ready_pool', p) > Occurrences(ready_pool, p)) =>
              last'.op = "clear_pools"]_vars

\* C11 witness: the first pool failed an allocation, went to the full list,
\* and a clear_pools has brought it back behind the second pool.
C11_Witness ==
    /\ last.op = "clear_pools"
    /\ last.result = "ok"
    /\ Len(ready_pool) = 2
    /\ NoDuplicates(ready_pool)
    /\ full_pool = <<>>

\* C12: every successful allocate call returns a set of a live pool that had
\* a set left, and the set is none of those handed out since that pool was
\* last reset.
C12_SetsHandedOutOnce ==
    [][(last'.op = "allocate" /\ last'.result = "ok") =>
         /\ pools'[last'.set[1]].state = "live"
         /\ pools'[last'.set[1]].used <= pools'[last'.set[1]].cap
         /\ last'.set \notin sets_out
         /\ last'.set \in sets_out']_vars

\* C12 witness: two sets of one pool are out at once, the second just
\* returned.
C12_Witness ==
    /\ last.op = "allocate"
    /\ last.result = "ok"
    /\ last.set[2] = 2
    /\ <<last.set[1], 1>> \in sets_out

\* C0 * 3^k, cut off at 4093 * 2^k (from there on min(4092, ..) decides).
RECURSIVE ScaledCapacity(_, _)
ScaledCapacity(c0, k) ==
    IF k = 0 THEN Min(c0, 4093)
    ELSE Min(3 * ScaledCapacity(c0, k - 1), 4093 * (2 ^ k))

\* Whether cap is min(4092, round(c0 * 1.5^k)), a tie rounded either way.
IsRoundedCapacity(cap, c0, k) ==
    LET x == ScaledCapacity(c0, k)
        d == 2 ^ k
    IN  IF 2 * x >= 8185 * d THEN cap = 4092
        ELSE /\ 2 * (cap * d - x) <= d
             /\ 2 * (x - cap * d) <= d

\* C13, as claimed: the pool created after k exhaustions has
\* min(4092, round(C0 * 1.5^k)) sets.
C13_RoundedCapacity == IsRoundedCapacity(created_capacity, max_sets, pools_created)

\* The capacity the integer arithmetic gives: C0 for the pool of new, then
\* c + floor(c / 2) capped at 4092, step by step.
RECURSIVE TruncatedCapacity(_, _)
TruncatedCapacity(c0, k) ==
    IF k = 0 THEN c0
    ELSE LET c == TruncatedCapacity(c0, k - 1)
         IN  IF c + (c \div 2) > 4092 THEN 4092 ELSE c + (c \div 2)

\* C13, amended: the pool created after k exhaustions has the capacity
\* obtained from C0 by k steps of c -> min(4092, c + floor(c / 2)); the pool
\* of new has C0 sets.
C13_TruncatedCapacity ==
    created_capacity = TruncatedCapacity(max_sets, pools_created)

\* C13 witness: from C0 = 10 the fifth pool has 49 sets (10 * 1.5^4 = 50.6).
C13_Witness ==
    /\ max_sets = 10
    /\ pools_created = 4
    /\ created_capacity = 49

\* C14: from C0 = 10 the created pools have 10, 15, 22, 33, .. sets, never
\* more than 4092, and from the sixteenth pool on exactly 4092.
C14_SequenceFromTen ==
    max_sets = 10 =>
        /\ pools_created <= 3 => created_capacity = <<10, 15, 22, 33>>[pools_created + 1]
        /\ created_capacity <= 4092
        /\ pools_created >= 15 => created_capacity = 4092

\* C14 witness: the sequence from 10 has reached 4092 and stayed there for a
\* further pool.
C14_Witness ==
    /\ max_sets = 10
    /\ pools_created = 16
    /\ created_capacity = 4092

\* C15: once a render iteration has reset its slot's command buffer, the
\* per-frame descriptor allocator has been cleared by clear_pools.
C15_ClearPoolsEveryFrame == iter.recorded # NoIndex => last.op = "clear_pools"

\* The group of the shutdown order an object belongs to (0: none of them).
DestroyGroup(x) ==
    CASE x = "frames" -> 1
      [] x \in {"meshes", "depth_image", "draw_image"} -> 2
      [] x = "descriptor_allocator" -> 3
      [] x \in {"swapchain", "render_semaphores"} -> 4
      [] x = "device" -> 5
      [] x = "surface" -> 6
      [] x = "debug_messenger" -> 7
      [] x = "instance" -> 8
      [] OTHER -> 0

\* C16: Engine::destroy destroys frame ring, dependent GPU resources,
\* descriptor allocators, swapchain, device, surface, debug messenger and
\* instance in this order: no object of a later group before one of an
\* earlier group.
C16_DestroyOrder ==
    \A i, j \in 1 .. Len(destroy_order) :
        (i < j /\ DestroyGroup(destroy_order[i]) > 0 /\ DestroyGroup(destroy_order[j]) > 0)
            => DestroyGroup(destroy_order[i]) <= DestroyGroup(destroy_order[j])

\* Whether Engine::destroy destroyed x before the device.
BeforeDevice(x) ==
    \E i, j \in 1 .. Len(destroy_order) :
        i < j /\ destroy_order[i] = x /\ destroy_order[j] = "device"

\* C17: when Engine::destroy has destroyed the device, every frame slot's
\* objects, the swapchain with its views and semaphores, the engine's render
\* semaphores, the immediate contexts and every descriptor pool ever created
\* have been destroyed.
C17_NoChildOutlivesDevice ==
    pc = "destroyed" =>
        /\ \A k \in Slots : frames[k] = "destroyed"
        /\ ~swapchain.alive
        /\ render_semaphores = 0
        /\ \A x \in {"frames", "immediate_graphics", "immediate_transfer",
                     "descriptor_allocator", "swapchain", "render_semaphores"} :
             BeforeDevice(x)
        /\ \A p \in PoolIds : pools[p].state # "live"

\* C18: submit makes its calls in the order reset_fences,
\* reset_command_buffer, begin_command_buffer, func, end_command_buffer,
\* queue_submit2, wait_for_fences; a call that returned Ok made all of them,
\* func once, with its own fence as the signal fence, and none of the
\* context's submissions is still pending.
C18_SubmitOrderAndCompletion ==
    LET order == << "reset_fences", "reset_command_buffer", "begin_command_buffer",
                    "func", "end_command_buffer", "queue_submit2", "wait_for_fences" >>
    IN  /\ Len(imm_call.steps) <= Len(order)
        /\ imm_call.steps = SubSeq(order, 1, Len(imm_call.steps))
        /\ imm_call.result = "ok" =>
             /\ imm_call.steps = order
             /\ imm_call.func_calls = 1
             /\ imm_call.signal_fence = imm_call.ctx
             /\ imm_pending[imm_call.ctx] = 0

\* C19: at every entry to submit no earlier submission of the context is
\* pending, and the fence is signaled when the call resets it.
C19_FenceWaitedBeforeReuse ==
    imm_call.result # "none" =>
        /\ ~imm_call.entry_pending
        /\ InSeq(imm_call.steps, "reset_fences") => imm_call.entry_signaled

\* C20: a render call that ran to its end went through WaitPreviousFrame,
\* AcquireImage, RecordCommands, Submit, Present, Advance, each once and in
\* this order; one that gave up at acquire through WaitPreviousFrame,
\* AcquireImage, NeedsResize and nothing else; and a call that returned Ok
\* did one or the other.
C20_IterationStates ==
    /\ iter.outcome = "done" =>
         iter.trace = << "WaitPreviousFrame", "AcquireImage", "RecordCommands",
                         "Submit", "Present", "Advance" >>
    /\ iter.outcome = "short" =>
         iter.trace = << "WaitPreviousFrame", "AcquireImage", "NeedsResize" >>
    /\ (pc = "idle" /\ iter.outcome # "none") => iter.outcome \in {"done", "short"}

\* C20 witness: a frame whose present reported the swapchain stale has still
\* run to Advance.
C20_Witness ==
    /\ pc = "idle"
    /\ iter.outcome = "done"
    /\ iter.advanced
    /\ resize_swapchain
    /\ frame_index # iter.start_index

\* C21: the submission of a render call waits on the acquisition semaphore
\* of the call's own slot, the one the call passed to acquire_next_image,
\* and that semaphore carried no earlier signal when it was passed; the
\* present of the call waits on the render semaphore that this submission
\* signals.
C21_SemaphoreChain ==
    /\ pc = "acquire" => ~swapchain_semaphore[AcquireSemaphore]
    /\ iter.acquire_sem # NoIndex => iter.acquire_sem = iter.slot
    /\ iter.submitted # NoIndex =>
         /\ iter.acquire_sem # NoIndex
         /\ iter.submit_wait = iter.acquire_sem
    /\ iter.wait_sem # NoIndex =>
         /\ iter.submitted # NoIndex
         /\ iter.wait_sem = iter.signal_sem

\* C21 witness: a call on slot 1 has acquired, submitted and presented.
C21_Witness ==
    /\ iter.outcome = "done"
    /\ iter.slot = 1
    /\ iter.acquire_sem = 1
    /\ iter.submit_wait = 1
    /\ iter.wait_sem = iter.signal_sem
    /\ iter.presented # NoIndex

\* C22: a present that reports the swapchain out of date or suboptimal sets
\* resize_swapchain and render returns Ok, the process going on; and no
\* render call reaches acquire_next_image while the flag is set: the call
\* has recreated the swapchain first.
C22_StalePresentHandled ==
    /\ iter.present_res \in {"out_of_date", "suboptimal"} =>
         /\ iter.outcome = "done"
         /\ pc # "terminated"
         /\ resize_swapchain
    /\ pc = "acquire" =>
         /\ ~resize_swapchain
         /\ swapchain.alive

\* C22 witness: with no resize event at all, a present has reported the
\* swapchain out of date and render has returned with the flag set.
C22_Witness ==
    /\ iter.present_res = "out_of_date"
    /\ pc = "idle"
    /\ resize_swapchain
    /\ ~resize_events

\* C23: a swapchain that Swapchain::new returned has one image view per image.
C23_ViewPerImage == swapchain.alive => swapchain.views = swapchain.images

\* C24: a render call in which the fence wait or reset, a gui call, the
\* swapchain recreation, the acquire, the recording, the submit or the
\* present failed fatally has returned Err, and the process has ended.
C24_FailuresEndTheProcess ==
    iter.failure # "none" =>
        /\ iter.outcome = "err"
        /\ pc = "terminated"

\* C24 witness: a present failed after the frame was submitted.
C24_Witness ==
    /\ iter.failure = "present"
    /\ iter.submitted # NoIndex
    /\ pc = "terminated"

\* C25: every step in which an ImmediateSubmit::submit starts or returns is
\* taken inside Engine::new, before the first render call.
C25_UploadsOnlyAtSetup ==
    [][imm_call' # imm_call => (pc = "setup" /\ frames_begun = 0)]_vars

\* C25 witness: after an upload at setup a render call is between its fence
\* wait and its advance.
C25_Witness ==
    /\ imm_call.result = "ok"
    /\ imm_call.ctx = "immediate_transfer"
    /\ pc = "present"
    /\ iter.waited # NoIndex

\* Every render call so far has run to its end (the last may still run).
Consecutive == frames_begun = frames_done + (IF iter.outcome = "running" THEN 1 ELSE 0)

\* C26: a render call runs on slot frame_index mod FRAMES_IN_FLIGHT, its
\* advance moves frame_index to the next slot, and the n-th of n
\* successful calls in a row runs on slot (n - 1) mod FRAMES_IN_FLIGHT:
\* 0, 1, 0, 1, ..
C26_RingCycles ==
    /\ iter.slot # NoIndex => iter.slot = iter.start_index % FRAMES_IN_FLIGHT
    /\ iter.advanced => frame_index = (iter.slot + 1) % FRAMES_IN_FLIGHT
    /\ (Consecutive /\ frames_begun >= 1) =>
         /\ iter.slot = (frames_begun - 1) % FRAMES_IN_FLIGHT
         /\ get_current_frame = frames_done % FRAMES_IN_FLIGHT

\* C26 witness: the fourth successful call in a row has run on slot 1.
C26_Witness ==
    /\ Consecutive
    /\ frames_done = 4
    /\ iter.slot = 1
    /\ pc = "idle"

\* C27: after 5 render calls that all succeeded, with no resize event, the
\* frame index is 1 and each slot was used at least twice; and on the
\* way no fence wait blocks for ever: the fence waited on is signaled or a
\* submission that signals it is on the queue.
C27_FiveFrames ==
    /\ (~resize_events /\ Consecutive /\ frames_done = 5) =>
         /\ frame_index = 1
         /\ \A k \in Slots : slot_uses[k] >= 2
    /\ (~resize_events /\ Consecutive /\ pc = "wait") =>
         (fence[get_current_frame] \/ FencePending(get_current_frame))

\* C27 witness: five successful calls, no resize event.
C27_Witness ==
    /\ ~resize_events
    /\ frames_begun = 5
    /\ frames_done = 5
    /\ slot_uses[0] = 3
    /\ slot_uses[1] = 2

\* C28: there are FRAMES_IN_FLIGHT = 2 slots; until Engine::destroy every
\* slot's objects and descriptor pools are live; Engine::destroy destroys
\* each slot's objects and each pool once, after a device_wait_idle that
\* returned with no work left on the queue.
C28_SlotsLiveUntilDestroy ==
    /\ DOMAIN frames = Slots
    /\ Cardinality(Slots) = 2
    /\ pc # "destroyed" =>
         /\ \A k \in Slots : frames[k] = "live"
         /\ \A p \in PoolIds : pools[p].destroys = 0
    /\ pc = "destroyed" =>
         /\ \A k \in Slots : frames[k] = "destroyed"
         /\ \A p \in PoolIds : pools[p].state # "none" => pools[p].destroys = 1
         /\ gpu = <<>>
         /\ destroy_order[1] = "device_wait_idle"
         /\ Occurrences(destroy_order, "frames") = 1

\* C28 witness: Engine::destroy has run after frames were drawn on both slots.
C28_Witness ==
    /\ pc = "destroyed"
    /\ slot_uses[0] >= 1
    /\ slot_uses[1] >= 1
    /\ \A k \in Slots : frames[k] = "destroyed"

\* The pools of a list.
PoolSet(seq) == {seq[n] : n \in 1 .. Len(seq)}

\* C29: a clear_pools that returns Ok leaves full_pool empty and
\* ready_pool holding exactly the pools that were in either list, has reset
\* every one of them, and has destroyed no pool.
C29_ClearPoolsResetsAll ==
    [][(last'.op = "clear_pools" /\ last'.result = "ok") =>
          /\ full_pool' = <<>>
          /\ PoolSet(ready_pool') = PoolSet(ready_pool) \cup PoolSet(full_pool)
          /\ Len(ready_pool') = Len(ready_pool) + Len(full_pool)
          /\ \A p \in PoolSet(ready_pool) \cup PoolSet(full_pool) : pools'[p].used = 0
          /\ \A p \in PoolIds : /\ pools'[p].state = pools[p].state
                                  /\ pools'[p].destroys = pools[p].destroys]_vars

\* C29 witness: a clear_pools has returned Ok with two pools, no set of
\* which is allocated any more.
C29_Witness ==
    /\ last.op = "clear_pools"
    /\ last.result = "ok"
    /\ full_pool = <<>>
    /\ Cardinality(PoolSet(ready_pool)) = 2
    /\ \A p \in PoolSet(ready_pool) : pools[p].state = "live" /\ pools[p].used = 0

\* C30: the step of a resize event that sets resize_swapchain changes
\* nothing else of the engine; and the swapchain changes only in the step
\* that begins a render call with the flag set, or in Engine::destroy.
C30_ResizeOnlySetsFlag ==
    [][/\ (pc = "idle" /\ ~resize_swapchain /\ resize_swapchain') =>
            UNCHANGED <<pc, frame_index, fence, swapchain_semaphore, frames, gpu,
                        render, surface, swapchain, render_semaphores, image_index,
                        iter, destroyed_in_use, reset_while_pending, destroy_order>>
       /\ swapchain' # swapchain =>
            \/ pc = "idle" /\ resize_swapchain /\ pc' \in {"wait", "terminated"}
            \/ pc = "exiting" /\ pc' = "destroyed"]_vars

\* C30 witness: a resize event has arrived, the flag is set, and the
\* swapchain built for the old surface is still in place.
C30_Witness ==
    /\ resize_events
    /\ resize_swapchain
    /\ pc = "idle"
    /\ swapchain.alive
    /\ swapchain.images # ImageCount(surface)

\* C31: while the window is occluded no render call is running, and no step
\* taken from the event loop starts one, touches the frame ring, the
\* swapchain or a semaphore, submits work or destroys an object.
C31_OccludedNoRender ==
    /\ [](~render => pc \in {"idle", "exiting", "destroyed"})
    /\ [][(~render /\ pc = "idle") =>
            /\ pc' \in {"idle", "exiting"}
            /\ Len(gpu') <= Len(gpu)
            /\ UNCHANGED <<frame_index, frames, swapchain, swapchain_semaphore,
                           render_semaphores, image_index, iter, frames_begun,
                           frames_done, destroy_order>>]_vars

\* C31 witness: the window is occluded with a frame still on the queue and
\* the resize flag set; everything is in place.
C31_Witness ==
    /\ ~render
    /\ pc = "idle"
    /\ gpu # <<>>
    /\ resize_swapchain
    /\ swapchain.alive
    /\ \A k \in Slots : frames[k] = "live"

C33_ServingPoolReused ==
    [][/\ (last'.op = "allocate" /\ last'.result = "ok") =>
            /\ ready_pool' # <<>>
            /\ ready_pool'[Len(ready_pool')] = last'.set[1]
            /\ Len(ready_pool) >= last'.attempts => pools_created' = pools_created
       /\ (last'.op = "allocate" /\ ready_pool # <<>>) =>
            last'.first = ready_pool[Len(ready_pool)]
       /\ (last'.op = "allocate" /\ last.op = "allocate" /\ last.result = "ok") =>
            last'.first = last.set[1]]_vars

\* C33 witness: the second set of a pool was handed out at the first attempt.
C33_Witness ==
    /\ last.op = "allocate"
    /\ last.result = "ok"
    /\ last.attempts = 1
    /\ last.set[2] = 2
    /\ ready_pool # <<>>
    /\ ready_pool[Len(ready_pool)] = last.set[1]

\* The transitions of one image, in order.
TransitionsOf(seq, image) == SelectSeq(seq, LAMBDA t : t.image = image)

\* Every transition declares UNDEFINED or the layout the image's preceding
\* transition left.
LayoutChain(seq) ==
    \A image \in {seq[n].image : n \in 1 .. Len(seq)} :
        LET own == TransitionsOf(seq, image)
        IN  \A n \in 1 .. Len(own) :
               \/ own[n].old = "UNDEFINED"
               \/ n > 1 /\ own[n].old = own[n - 1].new

\* The layouts an image goes through: the first old layout, then every new one.
LayoutPath(seq, image) ==
    LET own == TransitionsOf(seq, image)
    IN  IF own = <<>> THEN <<>>
        ELSE <<own[1].old>> \o [n \in 1 .. Len(own) |-> own[n].new]

\* C34: the transitions a render call has recorded form a chain per image;
\* in a recording that was submitted the draw image went UNDEFINED, GENERAL,
\* COLOR_ATTACHMENT_OPTIMAL, TRANSFER_SRC_OPTIMAL, the swapchain image
\* UNDEFINED, TRANSFER_DST_OPTIMAL, COLOR_ATTACHMENT_OPTIMAL, PRESENT_SRC_KHR,
\* and every transition of either continues from the one before.
C34_LayoutTransitions ==
    /\ LayoutChain(iter.transitions)
    /\ iter.submitted # NoIndex =>
         /\ LayoutPath(iter.transitions, "draw_image") =
                << "UNDEFINED", "GENERAL", "COLOR_ATTACHMENT_OPTIMAL",
                   "TRANSFER_SRC_OPTIMAL" >>
         /\ LayoutPath(iter.transitions, "swapchain_image") =
                << "UNDEFINED", "TRANSFER_DST_OPTIMAL", "COLOR_ATTACHMENT_OPTIMAL",
                   "PRESENT_SRC_KHR" >>
         /\ \A image \in {"draw_image", "swapchain_image"} :
               LET own == TransitionsOf(iter.transitions, image)
               IN  \A n \in 2 .. Len(own) : own[n].old = own[n - 1].new

\* C34 witness: a recording with all its transitions was submitted.
C34_Witness ==
    /\ pc = "present"
    /\ iter.submitted # NoIndex
    /\ Len(iter.transitions) = 7

\* C35: neither the swapchain in place nor the one it replaced has been
\* destroyed more than once.
C35_SwapchainDestroyedOnce ==
    /\ swapchain.destroys <= 1
    /\ swapchain.prev.destroys <= 1

\* C35 witness: a recreation failed after the old swapchain, itself a
\* replacement, was destroyed.
C35_Witness ==
    /\ pc = "terminated"
    /\ iter.failure = "resize_swapchain"
    /\ ~swapchain.alive
    /\ swapchain.destroys = 1
    /\ swapchain.prev.exists

C37_AdvanceIffSubmitted ==
    (pc = "idle" /\ iter.outcome \in {"done", "short"}) =>
        /\ iter.advanced <=> iter.submitted # NoIndex
        /\ fence[get_current_frame] \/ FencePending(get_current_frame)

\* C38: the pool created last has at most MAX_SETS_PER_POOL sets, and so has
\* the pool_capacity counter.
C38_CapacityCeiling ==
    /\ created_capacity <= MAX_SETS_PER_POOL
    /\ pool_capacity <= MAX_SETS_PER_POOL

\* C39: before the first submit every immediate fence is signaled, and a
\* submit finds its fence signaled; in the first FRAMES_IN_FLIGHT render
\* calls the fence waited on is signaled though nothing was ever submitted
\* for the slot.
C39_FencesCreatedSignaled ==
    /\ imm_call.result = "none" => \A c \in ImmediateContexts : imm_fence[c]
    /\ imm_call.result # "none" => imm_call.entry_signaled
    /\ (Consecutive /\ frames_begun <= FRAMES_IN_FLIGHT /\ pc = "wait") =>
         /\ fence[get_current_frame]
         /\ slot_uses[get_current_frame] = 0
         /\ ~FencePending(get_current_frame)

\* C39 witness: after an upload, the second render call waits on slot 1.
C39_Witness ==
    /\ imm_call.result = "ok"
    /\ pc = "wait"
    /\ frames_begun = FRAMES_IN_FLIGHT
    /\ Consecutive
    /\ get_current_frame = 1

\* C40: a Swapchain::new that returned Err has left none of the objects it
\* created alive.
C40_FailedNewLeavesNothing ==
    iter.failure = "resize_swapchain" => iter.left_alive = {}

====
